---------------------------- MODULE Spec2Model ----------------------------
(***************************************************************************)
(* Model of export_wav2vec2_onnx.py: main, hf2onnx and test_onnx_model,    *)
(* together with the part of the filesystem they act on (the fixed staging *)
(* directory .temp, the staged file .temp/model.onnx and the published     *)
(* file <output_dir>/onnx/model.onnx).                                     *)
(*                                                                         *)
(* One invocation of the script is one run.  Runs are serialized; the      *)
(* filesystem survives from one run to the next, the process state does    *)
(* not.  A file is modelled by the run that produced its content and by    *)
(* whether that content is complete.                                       *)
(***************************************************************************)
EXTENDS Integers, Sequences, FiniteSets, TLC

VARIABLES
    run,            \* number of the current invocation of the script
    args,           \* getArgs(): [output_dir, test_wav]
    pc,             \* the statement the process is about to execute
    temp_dir,       \* whether the directory .temp exists
    staged,         \* content of .temp/model.onnx
    published,      \* content of <output_dir>/onnx/model.onnx, per output_dir
    ort_outs,       \* ort_outs[0] of test_onnx_model
    predicted_ids,  \* predicted_ids of test_onnx_model
    transcription,  \* transcription of test_onnx_model
    stdout,         \* what the current run has printed
    trail,          \* history: pipeline events of the current run
    vsteps,         \* history: validation steps executed by the current run
    prior           \* history: the filesystem as the current run found it

vars == <<run, args, pc, temp_dir, staged, published, ort_outs, predicted_ids,
          transcription, stdout, trail, vsteps, prior>>

---------------------------------------------------------------------------
(* Bounds *)

\* Number of serialized invocations of the script.
MaxRuns == 3

\* Longest output sequence (time steps) the engine returns.
MaxTime == 2

\* Batch sizes of the engine's output: a mono clip gives 1, a stereo clip 2.
Batches == {1, 2}

\* Class indices of the vocabulary axis, and the logit values of one entry.
Classes == {0, 1, 2}
LogitLevels == {0, 1}

---------------------------------------------------------------------------
(* Files *)

NoFile == [ver |-> 0, complete |-> FALSE]

\* The complete artifact torch.onnx.export produces in run r.
Artifact(r) == [ver |-> r, complete |-> TRUE]

\* A file torch.onnx.export or a copy has begun to write and not finished.
Partial(r) == [ver |-> r, complete |-> FALSE]

Exists(f) == f # NoFile

\* Output directories a caller may pass with -o.  The staging directory .temp
\* lives in the working directory; "out_same" is on the working directory's
\* filesystem and "out_other" is on another one.
OutDirs == {"out_same", "out_other"}

\* Whether os.rename can take .temp/model.onnx to the output directory d
\* (it cannot cross filesystems).
SameDevice(d) == d = "out_same"

\* --test-wav: absent, a readable clip, a path with no file, a corrupt file.
TestWavs == {"none", "clip.wav", "missing.wav", "corrupt.wav"}

Args == [output_dir : OutDirs, test_wav : TestWavs]

---------------------------------------------------------------------------
(* Tensors.  A row holds the logits of one time step, class k at position  *)
(* k + 1; a tensor is batch x time-step x vocabulary.                      *)

VocabLen == Cardinality(Classes)

Rows == [1..VocabLen -> LogitLevels]

Tensors == UNION {[1..b -> [1..t -> Rows]] : b \in Batches, t \in 0..MaxTime}

\* The outputs the engine returns in the pipeline specification.
SampleOutputs ==
    { << << <<0, 1, 0>>, <<0, 1, 0>> >> >>,
      << << <<1, 0, 0>>, <<0, 0, 1>> >> >>,
      << << <<1, 1, 0>>, <<0, 1, 1>> >>, << <<0, 0, 0>>, <<0, 0, 1>> >> >> }

\* np.argmax over one row: the first index holding the maximum.
RECURSIVE ArgMaxFrom(_, _, _)
ArgMaxFrom(row, i, best) ==
    IF i > Len(row) THEN best - 1
    ELSE ArgMaxFrom(row, i + 1, IF row[i] > row[best] THEN i ELSE best)

ArgMax(row) == ArgMaxFrom(row, 2, 1)

\* np.argmax(ort_outs[0], axis=1): the arg-max taken over the time axis.
argmaxAxis1(t) ==
    [b \in DOMAIN t |->
        [k \in 1..VocabLen |->
            IF Len(t[b]) = 0 THEN 0
            ELSE ArgMax([s \in 1..Len(t[b]) |-> t[b][s][k]])]]

\* np.argmax(ort_outs[0], axis=-1)
argmax(t) == [b \in DOMAIN t |-> [s \in DOMAIN t[b] |-> ArgMax(t[b][s])]]

\* The CTC blank (pad) token of the tokenizer.
PadId == 0

\* Wav2Vec2CTCTokenizer.decode: merge repeated tokens, then drop the blank.
RECURSIVE GroupTokens(_)
GroupTokens(ids) ==
    IF Len(ids) <= 1 THEN ids
    ELSE IF ids[1] = ids[2] THEN GroupTokens(Tail(ids))
    ELSE <<ids[1]>> \o GroupTokens(Tail(ids))

IsToken(id) == id # PadId

decode(ids) == SelectSeq(GroupTokens(ids), IsToken)

\* processor.batch_decode(predicted_ids)
batch_decode(ids) == [b \in DOMAIN ids |-> decode(ids[b])]

---------------------------------------------------------------------------
(* The process *)

output_dir == args.output_dir

Running == {"main_load", "main_mkdir", "hf_mkdir", "hf_export",
            "hf_export_write", "hf_move", "hf_move_copy", "hf_move_unlink",
            "hf_rmtree", "main_test", "t_processor", "t_audio", "t_session",
            "t_run", "t_decode", "t_report"}

Ended == {"exited", "crashed", "killed"}

\* What a run finds on disk when it starts.
Found(a) == [pub |-> published[a.output_dir], temp |-> temp_dir,
             staged |-> staged]

Init ==
    /\ run = 1
    /\ args \in Args
    /\ pc = "main_load"
    /\ temp_dir = FALSE
    /\ staged = NoFile
    /\ published = [d \in OutDirs |-> NoFile]
    /\ ort_outs = <<>>
    /\ predicted_ids = <<>>
    /\ transcription = <<>>
    /\ stdout = <<>>
    /\ trail = <<>>
    /\ vsteps = <<>>
    /\ prior = [pub |-> NoFile, temp |-> FALSE, staged |-> NoFile]

\* An exception nothing catches: the interpreter prints a traceback on
\* stderr and the process ends with a non-zero status.
Unhandled(event) ==
    /\ pc' = "crashed"
    /\ trail' = Append(trail, event)

FilesUnchanged == UNCHANGED <<temp_dir, staged, published>>
TensorsUnchanged == UNCHANGED <<ort_outs, predicted_ids, transcription>>
RunUnchanged == UNCHANGED <<run, args, prior>>

---------------------------------------------------------------------------
(* main, lines 124-132 *)

\* Wav2Vec2ForCTC.from_pretrained, import_huggingface_model, eval, print.
LoadModel ==
    /\ pc = "main_load"
    /\ \E ok \in BOOLEAN :
        IF ok
        THEN /\ pc' = "main_mkdir"
             /\ trail' = Append(trail, "model_loaded")
             /\ stdout' = Append(stdout, "class")
        ELSE /\ Unhandled("model_load_failed")
             /\ UNCHANGED stdout
    /\ FilesUnchanged /\ TensorsUnchanged /\ RunUnchanged
    /\ UNCHANGED vsteps

\* model_out_dir.mkdir(parents=True, exist_ok=True)
MakeOutDir ==
    /\ pc = "main_mkdir"
    /\ \E ok \in BOOLEAN :
        IF ok
        THEN /\ pc' = "hf_mkdir"
             /\ trail' = Append(trail, "outdir_ready")
        ELSE Unhandled("outdir_failed")
    /\ FilesUnchanged /\ TensorsUnchanged /\ RunUnchanged
    /\ UNCHANGED <<stdout, vsteps>>

---------------------------------------------------------------------------
(* hf2onnx, lines 36-59 *)

\* temp_dir = Path(".temp"); temp_dir.mkdir(exist_ok=True)
StagingMkdir ==
    /\ pc = "hf_mkdir"
    /\ temp_dir' = TRUE
    /\ pc' = "hf_export"
    /\ trail' = Append(trail, "staging_ready")
    /\ UNCHANGED <<staged, published, stdout, vsteps>>
    /\ TensorsUnchanged /\ RunUnchanged

\* main catching what hf2onnx raises and carrying on.
ExportSwallowed ==
    /\ pc' = "main_test"
    /\ trail' = Append(trail, "export_failed")

\* torch.onnx.export raises: nothing in hf2onnx or main catches it.
ExportRaised == Unhandled("export_failed")

\* The trace fails before anything is written to .temp/model.onnx.
ExportTraceError ==
    /\ pc = "hf_export"
    /\ ExportRaised
    /\ FilesUnchanged /\ TensorsUnchanged /\ RunUnchanged
    /\ UNCHANGED <<stdout, vsteps>>

\* An exporter that leaves a file already at .temp/model.onnx as it is.
ExportOpenKeepExisting ==
    /\ pc = "hf_export"
    /\ staged' = IF Exists(staged) THEN staged ELSE Partial(run)
    /\ pc' = "hf_export_write"
    /\ UNCHANGED <<temp_dir, published, stdout, trail, vsteps>>
    /\ TensorsUnchanged /\ RunUnchanged

\* The exporter opens .temp/model.onnx for writing, truncating what is there.
ExportOpen ==
    /\ pc = "hf_export"
    /\ staged' = Partial(run)
    /\ pc' = "hf_export_write"
    /\ UNCHANGED <<temp_dir, published, stdout, trail, vsteps>>
    /\ TensorsUnchanged /\ RunUnchanged

\* Writing the graph fails part-way (the staging location is not writable,
\* the disk is full).
ExportWriteError ==
    /\ pc = "hf_export_write"
    /\ ExportRaised
    /\ FilesUnchanged /\ TensorsUnchanged /\ RunUnchanged
    /\ UNCHANGED <<stdout, vsteps>>

\* torch.onnx.export returns: .temp/model.onnx is this run's whole graph.
ExportDone ==
    /\ pc = "hf_export_write"
    /\ staged' = [staged EXCEPT !.complete = TRUE]
    /\ pc' = "hf_move"
    /\ trail' = Append(trail, "export_ok")
    /\ UNCHANGED <<temp_dir, published, stdout, vsteps>>
    /\ TensorsUnchanged /\ RunUnchanged

\* A move that leaves a file already at the destination alone.
MoveRenameKeepExisting ==
    /\ pc = "hf_move"
    /\ SameDevice(output_dir)
    /\ published' = IF Exists(published[output_dir]) THEN published
                    ELSE [published EXCEPT ![output_dir] = staged]
    /\ staged' = NoFile
    /\ pc' = "hf_rmtree"
    /\ trail' = Append(trail, "publish_ok")
    /\ UNCHANGED <<temp_dir, stdout, vsteps>>
    /\ TensorsUnchanged /\ RunUnchanged

\* shutil.move on one filesystem: os.rename replaces the destination in one
\* step and the source name is gone.
MoveRename ==
    /\ pc = "hf_move"
    /\ SameDevice(output_dir)
    /\ published' = [published EXCEPT ![output_dir] = staged]
    /\ staged' = NoFile
    /\ pc' = "hf_rmtree"
    /\ trail' = Append(trail, "publish_ok")
    /\ UNCHANGED <<temp_dir, stdout, vsteps>>
    /\ TensorsUnchanged /\ RunUnchanged

\* A failed move that clears the staging area on its way out.
PublishRaisedCleanup ==
    /\ Unhandled("publish_failed")
    /\ temp_dir' = FALSE
    /\ staged' = NoFile

\* shutil.move raises: the exception leaves hf2onnx before shutil.rmtree.
PublishRaised ==
    /\ Unhandled("publish_failed")
    /\ UNCHANGED <<temp_dir, staged>>

\* os.rename fails and so does opening the destination for the copy: the
\* destination is as it was.
MoveError ==
    /\ pc = "hf_move"
    /\ PublishRaised
    /\ UNCHANGED <<published, stdout, vsteps>>
    /\ TensorsUnchanged /\ RunUnchanged

\* shutil.move across filesystems: os.rename raises OSError and shutil.move
\* falls back to copy2, which opens the destination for writing.
MoveCopyOpen ==
    /\ pc = "hf_move"
    /\ ~SameDevice(output_dir)
    /\ published' = [published EXCEPT ![output_dir] = Partial(staged.ver)]
    /\ pc' = "hf_move_copy"
    /\ UNCHANGED <<temp_dir, staged, stdout, trail, vsteps>>
    /\ TensorsUnchanged /\ RunUnchanged

\* The copy fails part-way.
MoveCopyError ==
    /\ pc = "hf_move_copy"
    /\ PublishRaised
    /\ UNCHANGED <<published, stdout, vsteps>>
    /\ TensorsUnchanged /\ RunUnchanged

\* The copy reaches the end of the source.
MoveCopyDone ==
    /\ pc = "hf_move_copy"
    /\ published' = [published EXCEPT ![output_dir] = staged]
    /\ pc' = "hf_move_unlink"
    /\ UNCHANGED <<temp_dir, staged, stdout, trail, vsteps>>
    /\ TensorsUnchanged /\ RunUnchanged

\* os.unlink(src) fails: the destination is whole and the source remains.
MoveUnlinkError ==
    /\ pc = "hf_move_unlink"
    /\ PublishRaised
    /\ UNCHANGED <<published, stdout, vsteps>>
    /\ TensorsUnchanged /\ RunUnchanged

\* os.unlink(src) ends the fallback and shutil.move returns.
MoveUnlink ==
    /\ pc = "hf_move_unlink"
    /\ staged' = NoFile
    /\ pc' = "hf_rmtree"
    /\ trail' = Append(trail, "publish_ok")
    /\ UNCHANGED <<temp_dir, published, stdout, vsteps>>
    /\ TensorsUnchanged /\ RunUnchanged

\* shutil.rmtree(temp_dir); print("ONNX model saved to ...")
Rmtree ==
    /\ pc = "hf_rmtree"
    /\ temp_dir' = FALSE
    /\ staged' = NoFile
    /\ stdout' = Append(stdout, "saved")
    /\ trail' = Append(trail, "staging_removed")
    /\ pc' = "main_test"
    /\ UNCHANGED <<published, vsteps>>
    /\ TensorsUnchanged /\ RunUnchanged

---------------------------------------------------------------------------
(* main, lines 137-143 *)

MainTest ==
    /\ pc = "main_test"
    /\ IF args.test_wav = "none"
       THEN /\ pc' = "exited"
            /\ UNCHANGED stdout
       ELSE IF Exists(published[output_dir])
       THEN /\ pc' = "t_processor"
            /\ UNCHANGED stdout
       ELSE /\ pc' = "exited"
            /\ stdout' = Append(stdout, "onnx_not_found")
    /\ FilesUnchanged /\ TensorsUnchanged /\ RunUnchanged
    /\ UNCHANGED <<trail, vsteps>>

---------------------------------------------------------------------------
(* test_onnx_model, lines 62-121 *)

Step(name, ok) == [step |-> name, ok |-> ok]

\* The order of the steps in the body of test_onnx_model.
StepOrder == <<"config", "audio", "session", "inference", "decode", "report">>

\* Step 1 with the return of line 78 missing.
TProcessorNoReturn ==
    /\ pc = "t_processor"
    /\ \E ok \in BOOLEAN :
        /\ vsteps' = Append(vsteps, Step("config", ok))
        /\ pc' = "t_audio"
        /\ stdout' = IF ok THEN Append(stdout, "banner")
                     ELSE stdout \o <<"banner", "error_processor">>
    /\ FilesUnchanged /\ TensorsUnchanged /\ RunUnchanged
    /\ UNCHANGED trail

\* Lines 71-78: the banner, then Wav2Vec2Processor.from_pretrained(hf_repo)
\* under try/except Exception: print and return.
TProcessor ==
    /\ pc = "t_processor"
    /\ \E ok \in BOOLEAN :
        /\ vsteps' = Append(vsteps, Step("config", ok))
        /\ IF ok
           THEN /\ pc' = "t_audio"
                /\ stdout' = Append(stdout, "banner")
           ELSE /\ pc' = "exited"
                /\ stdout' = stdout \o <<"banner", "error_processor">>
    /\ FilesUnchanged /\ TensorsUnchanged /\ RunUnchanged
    /\ UNCHANGED trail

\* What step 2 prints for a path that cannot be loaded.  torchaudio raises
\* FileNotFoundError or, with some backends, another error for a path with
\* no file; each has its own except clause.
AudioErrors(wav) ==
    IF wav = "missing.wav" THEN {"wav_not_found", "error_audio"}
    ELSE {"error_audio"}

\* Step 2 with the return of line 94 missing.
TAudioNoReturn ==
    /\ pc = "t_audio"
    /\ vsteps' = Append(vsteps, Step("audio", args.test_wav = "clip.wav"))
    /\ IF args.test_wav = "clip.wav"
       THEN /\ pc' = "t_session"
            /\ UNCHANGED stdout
       ELSE \E msg \in AudioErrors(args.test_wav) :
            /\ pc' = IF msg = "wav_not_found" THEN "t_session" ELSE "exited"
            /\ stdout' = Append(stdout, msg)
    /\ FilesUnchanged /\ TensorsUnchanged /\ RunUnchanged
    /\ UNCHANGED trail

\* Lines 80-97: torchaudio.load, resample, processor(...) under
\* try/except FileNotFoundError/Exception: print and return.
TAudio ==
    /\ pc = "t_audio"
    /\ vsteps' = Append(vsteps, Step("audio", args.test_wav = "clip.wav"))
    /\ IF args.test_wav = "clip.wav"
       THEN /\ pc' = "t_session"
            /\ UNCHANGED stdout
       ELSE \E msg \in AudioErrors(args.test_wav) :
            /\ pc' = "exited"
            /\ stdout' = Append(stdout, msg)
    /\ FilesUnchanged /\ TensorsUnchanged /\ RunUnchanged
    /\ UNCHANGED trail

\* Step 3 discarding the artifact it could not load.
TSessionRollback ==
    /\ pc = "t_session"
    /\ stdout' = Append(stdout, "running")
    /\ \E ok \in BOOLEAN :
        /\ ok => published[output_dir].complete
        /\ vsteps' = Append(vsteps, Step("session", ok))
        /\ IF ok
           THEN /\ pc' = "t_run"
                /\ UNCHANGED <<trail, published>>
           ELSE /\ Unhandled("validation_raised")
                /\ published' = [published EXCEPT ![output_dir] = NoFile]
    /\ UNCHANGED <<temp_dir, staged>>
    /\ TensorsUnchanged /\ RunUnchanged

\* Lines 99-102: onnxruntime.InferenceSession(onnx_model_path) and
\* get_inputs, outside any try: what they raise is not caught.
TSession ==
    /\ pc = "t_session"
    /\ stdout' = Append(stdout, "running")
    /\ \E ok \in BOOLEAN :
        /\ ok => published[output_dir].complete
        /\ vsteps' = Append(vsteps, Step("session", ok))
        /\ IF ok
           THEN /\ pc' = "t_run"
                /\ UNCHANGED trail
           ELSE Unhandled("validation_raised")
    /\ FilesUnchanged /\ TensorsUnchanged /\ RunUnchanged

\* Lines 104-106: ort_session.run(None, ort_inputs), outside any try.
TRun ==
    /\ pc = "t_run"
    /\ \E ok \in BOOLEAN :
        /\ vsteps' = Append(vsteps, Step("inference", ok))
        /\ IF ok
           THEN /\ pc' = "t_decode"
                /\ ort_outs' \in SampleOutputs
                /\ UNCHANGED trail
           ELSE /\ Unhandled("validation_raised")
                /\ UNCHANGED ort_outs
    /\ FilesUnchanged /\ RunUnchanged
    /\ UNCHANGED <<predicted_ids, transcription, stdout>>

\* Lines 108-116: np.argmax, processor.batch_decode and the three prints.
TDecode ==
    /\ pc = "t_decode"
    /\ predicted_ids' = argmax(ort_outs)
    /\ transcription' = batch_decode(predicted_ids')
    /\ vsteps' = Append(vsteps, Step("decode", TRUE))
    /\ stdout' = stdout \o <<"predicted_ids", "processor", "batch_decode">>
    /\ pc' = "t_report"
    /\ FilesUnchanged /\ RunUnchanged
    /\ UNCHANGED <<ort_outs, trail>>

\* Lines 118-121: the report; transcription[0] is the first batch element.
TReport ==
    /\ pc = "t_report"
    /\ vsteps' = Append(vsteps, Step("report", TRUE))
    /\ stdout' = stdout \o <<"input_wav", "transcription", "complete">>
    /\ pc' = "exited"
    /\ FilesUnchanged /\ TensorsUnchanged /\ RunUnchanged
    /\ UNCHANGED trail

---------------------------------------------------------------------------
(* The environment *)

\* The process is killed: it stops where it is and the files stay as they
\* are.
Kill ==
    /\ pc \in Running
    /\ pc' = "killed"
    /\ FilesUnchanged /\ TensorsUnchanged /\ RunUnchanged
    /\ UNCHANGED <<stdout, trail, vsteps>>

\* The caller starts the script again once the last run has ended.
NextRun ==
    /\ pc \in Ended
    /\ run < MaxRuns
    /\ run' = run + 1
    /\ \E a \in Args :
        /\ args' = a
        /\ prior' = Found(a)
    /\ pc' = "main_load"
    /\ ort_outs' = <<>>
    /\ predicted_ids' = <<>>
    /\ transcription' = <<>>
    /\ stdout' = <<>>
    /\ trail' = <<>>
    /\ vsteps' = <<>>
    /\ FilesUnchanged

Next ==
    \/ LoadModel \/ MakeOutDir
    \/ StagingMkdir
    \/ ExportTraceError \/ ExportOpen \/ ExportWriteError \/ ExportDone
    \/ MoveRename \/ MoveError
    \/ MoveCopyOpen \/ MoveCopyError \/ MoveCopyDone
    \/ MoveUnlinkError \/ MoveUnlink
    \/ Rmtree
    \/ MainTest
    \/ TProcessor \/ TAudio \/ TSession \/ TRun \/ TDecode \/ TReport
    \/ Kill
    \/ NextRun

Spec == Init /\ [][Next]_vars

---------------------------------------------------------------------------
(* The decode step on its own: a validation run that has reached line 108  *)
(* with any output tensor within the bounds.                               *)

InitDecode ==
    /\ run = 1
    /\ args \in {a \in Args : a.test_wav = "clip.wav"}
    /\ pc = "t_decode"
    /\ temp_dir = FALSE
    /\ staged = NoFile
    /\ published = [d \in OutDirs |->
                        IF d = args.output_dir THEN Artifact(1) ELSE NoFile]
    /\ ort_outs \in Tensors
    /\ predicted_ids = <<>>
    /\ transcription = <<>>
    /\ stdout = <<"class", "saved", "banner", "running">>
    /\ trail = <<"model_loaded", "outdir_ready", "staging_ready", "export_ok",
                 "publish_ok", "staging_removed">>
    /\ vsteps = <<Step("config", TRUE), Step("audio", TRUE),
                  Step("session", TRUE), Step("inference", TRUE)>>
    /\ prior = [pub |-> NoFile, temp |-> FALSE, staged |-> NoFile]

NextDecode == TDecode \/ TReport

SpecDecode == InitDecode /\ [][NextDecode]_vars

---------------------------------------------------------------------------
(* Properties *)

Has(e) == \E i \in DOMAIN trail : trail[i] = e

FailedAt(s) == \E i \in DOMAIN vsteps : vsteps[i] = Step(s, FALSE)

Executed(s) == \E i \in DOMAIN vsteps : vsteps[i].step = s

PublishPcs == {"hf_move", "hf_move_copy", "hf_move_unlink"}

ValidationPcs == {"t_processor", "t_audio", "t_session", "t_run", "t_decode",
                  "t_report"}

CoreFailures == {"model_load_failed", "outdir_failed", "export_failed",
                 "publish_failed"}

\* C1: at every moment of every run, killed or failed runs included, each
\* published path holds no file or a complete artifact, never a partly
\* written one.
C1_PublishedNeverPartial ==
    \A d \in OutDirs : published[d] = NoFile \/ published[d].complete

\* C2: no step of a validation run, whatever its outcome, changes any
\* published artifact.
C2_ValidationKeepsArtifact ==
    [][(pc \in ValidationPcs) => (published' = published)]_vars

\* A validation run has ended on a failed step and the artifact of this run
\* is in place.
C2_Witness ==
    /\ pc \in Ended
    /\ FailedAt("session")
    /\ published[output_dir] = Artifact(run)

\* C3: when the decoding configuration cannot be resolved or the audio file
\* is missing, test_onnx_model prints the error and returns; no session is
\* created, no inference or decoding runs, the artifact is untouched and the
\* process exits normally.
C3_MissingInputReturns ==
    (FailedAt("config") \/ (FailedAt("audio") /\ args.test_wav = "missing.wav"))
    => /\ pc = "exited"
       /\ stdout # <<>>
       /\ stdout[Len(stdout)] \in
            (IF FailedAt("config") THEN {"error_processor"}
             ELSE {"wav_not_found", "error_audio"})
       /\ ~Executed("session") /\ ~Executed("inference") /\ ~Executed("decode")
       /\ ort_outs = <<>> /\ predicted_ids = <<>> /\ transcription = <<>>
       /\ published[output_dir] = Artifact(run)

C3_Witness ==
    /\ FailedAt("audio")
    /\ args.test_wav = "missing.wav"
    /\ pc = "exited"

\* C4: when the session cannot be loaded or the engine rejects the input,
\* the process does not end on an unhandled error: it ends normally with the
\* failure reported.
C4_EngineFailureReported ==
    (FailedAt("session") \/ FailedAt("inference")) => pc # "crashed"

\* C5: when the move of hf2onnx raises, .temp and the staged artifact of
\* this run are still there.
C5_FailedPublishKeepsStaging ==
    (trail # <<>> /\ trail[Len(trail)] = "publish_failed")
    => temp_dir /\ staged = Artifact(run)

C5_Witness ==
    /\ Has("publish_failed")
    /\ pc = "crashed"
    /\ temp_dir

\* C6: publish starts only after a successful export, validation only after
\* a successful publish with the artifact at the published path, and after a
\* failed load, export or publish nothing more of the pipeline executes.
C6_StrictSequence ==
    /\ pc \in PublishPcs => Has("export_ok") /\ staged.complete
    /\ Has("publish_ok") => Has("export_ok")
    /\ (pc \in ValidationPcs \/ vsteps # <<>>)
        => /\ Has("export_ok") /\ Has("publish_ok")
           /\ Exists(published[output_dir])
    /\ \A i \in DOMAIN trail :
        trail[i] \in CoreFailures
        => i = Len(trail) /\ pc = "crashed" /\ vsteps = <<>>

C6_Witness ==
    /\ pc = "t_processor"
    /\ Has("publish_ok")

\* C7: after a successful publish to a path that already held an artifact,
\* the path holds the artifact of this run and no published path holds the
\* artifact that was there before.
C7_RepublishReplaces ==
    (Has("publish_ok") /\ Exists(prior.pub))
    => /\ published[output_dir] = Artifact(run)
       /\ \A d \in OutDirs : published[d].ver # prior.pub.ver

C7_Witness ==
    /\ Has("publish_ok")
    /\ prior.pub.complete
    /\ published[output_dir] = Artifact(run)

\* C8: the steps of a validation run execute in the order config, audio,
\* session, inference, decode, report, each at most once, and a failed step
\* is the last step of the run.
C8_LinearSingleShot ==
    /\ Len(vsteps) <= Len(StepOrder)
    /\ \A i \in DOMAIN vsteps : vsteps[i].step = StepOrder[i]
    /\ \A i \in DOMAIN vsteps :
        ~vsteps[i].ok => i = Len(vsteps) /\ pc \in Ended

C8_Witness ==
    /\ Len(vsteps) = Len(StepOrder)
    /\ pc = "exited"

\* k is an index of the largest logit of the row.
IsMaxIndex(row, k) ==
    /\ k \in 0..(Len(row) - 1)
    /\ \A j \in 1..Len(row) : row[j] <= row[k + 1]

\* The row has one largest logit: it encodes one class index.
EncodesClass(row) ==
    \E k \in 1..Len(row) : \A j \in 1..Len(row) : j # k => row[j] < row[k]

EncodedClass(row) ==
    (CHOOSE k \in 1..Len(row) : \A j \in 1..Len(row) : j # k => row[j] < row[k]) - 1

\* C9: what the decode step hands to the decoding function is, per batch
\* element and time step, an index of the largest logit; and when every row
\* of the output encodes one class index, the transcript is the decoding of
\* exactly that sequence of indices.
C9_DecodeUsesArgMax ==
    Executed("decode")
    => /\ DOMAIN predicted_ids = DOMAIN ort_outs
       /\ \A b \in DOMAIN ort_outs :
            /\ DOMAIN predicted_ids[b] = DOMAIN ort_outs[b]
            /\ \A s \in DOMAIN ort_outs[b] :
                 IsMaxIndex(ort_outs[b][s], predicted_ids[b][s])
       /\ DOMAIN transcription = DOMAIN ort_outs
       /\ \A b \in DOMAIN ort_outs :
            (\A s \in DOMAIN ort_outs[b] : EncodesClass(ort_outs[b][s]))
            => transcription[b] =
                 decode([s \in DOMAIN ort_outs[b] |-> EncodedClass(ort_outs[b][s])])

\* Two batch elements: a repeated class merged into one token, and a blank
\* followed by a token.
C9_Witness ==
    /\ pc = "t_report"
    /\ ort_outs = << << <<0, 1, 0>>, <<0, 1, 0>> >>,
                     << <<1, 0, 0>>, <<0, 0, 1>> >> >>
    /\ predicted_ids = << <<1, 1>>, <<0, 2>> >>
    /\ transcription = << <<1>>, <<2>> >>

\* C10: a run of hf2onnx that returns has published the artifact it exported
\* itself and has left neither .temp nor a staged file, whatever earlier
\* runs left in .temp.
C10_SuccessAfterLeftovers ==
    /\ pc = "hf_move" => staged = Artifact(run)
    /\ Has("staging_removed")
        => /\ published[output_dir] = Artifact(run)
           /\ ~temp_dir
           /\ staged = NoFile

\* The run found .temp and a staged file left by an earlier run, and its
\* hf2onnx returned.
C10_Witness ==
    /\ Has("staging_removed")
    /\ prior.temp
    /\ Exists(prior.staged)

====
